---- MODULE Spec2Model ----
(***************************************************************************)
(* The streaming chat pipeline of app/routers/chat_router.py               *)
(* (create_chat_completion_stream and its generator generate()), with the  *)
(* collaborators it calls: ConversationService.add_message,                *)
(* APILogService.create_log, AiToolService.execute_tool_call and           *)
(* ChatClient.chat_completion_stream.                                      *)
(*                                                                         *)
(* Python strings are sequences of one-token strings, so that              *)
(* concatenation is \o and str.strip() is computed.  A dict key that is    *)
(* missing is Absent, a JSON null / Python None is Null.                   *)
(***************************************************************************)
EXTENDS Integers, Sequences, FiniteSets, TLC

\* ---------------------------------------------------------------- bounds
MaxChunks1 == 3     \* chunks the pass-1 upstream stream may carry
MaxChunks2 == 1     \* chunks the pass-2 upstream stream may carry
MaxFaults  == 1     \* store failures (commit/refresh/rollback/log) per request
MaxFrags   == 4     \* fragments fed to the tool-call buffer on its own
MaxCalls   == 2     \* calls made to the tool service on its own
MaxRequests == 3    \* requests that reach the handler one after the other
MaxConcurrent == 2  \* requests that are in the handler together
MaxClock    == 2    \* seconds the clock advances
rate_limit_requests == 2   \* settings.rate_limit_requests, scaled down from 1000
rate_limit_window   == 1   \* settings.rate_limit_window, scaled down from 60
MaxLines   == 3     \* lines of an upstream response body read by the client

\* ---------------------------------------------------------------- values
Absent  == <<"<absent>">>
Null    == <<"<null>">>
Empty   == << >>
\* a fragment without an index (tool_call.get('index') is None); real indexes are >= 0
NoIndex == -1

\* Python truthiness of an optional string: None, '' and a missing key are falsy.
Truthy(v) == v \notin {Absent, Null, Empty}

\* dict.get(key, ''): the default replaces a missing key only, not a null value.
GetDefault(v) == IF v = Absent THEN Empty ELSE v

\* `x or ""`
OrEmpty(v) == IF Truthy(v) THEN v ELSE Empty

IsSpace(c) == c = " "

RECURSIVE LStrip(_)
LStrip(s) == IF s # Empty /\ IsSpace(Head(s)) THEN LStrip(Tail(s)) ELSE s

RECURSIVE RStrip(_)
RStrip(s) ==
    IF s # Empty /\ IsSpace(s[Len(s)]) THEN RStrip(SubSeq(s, 1, Len(s) - 1)) ELSE s

\* str.strip()
Strip(s) == RStrip(LStrip(s))

\* message content: plain text, or the text json.dumps produced from a value
Text(s)     == [kind |-> "text", text |-> s]
JsonDumps(v) == [kind |-> "json", value |-> v]

\* `not content or not content.strip()` of add_message
IsBlank(content) == content.kind = "text" /\ Strip(content.text) = Empty

\* content.strip() of add_message
StripContent(content) ==
    IF content.kind = "text" THEN Text(Strip(content.text)) ELSE content

\* ------------------------------------------------------- tool-call buffer
\* tool_calls_buffer is a dict keyed by index; a Python dict iterates in
\* insertion order, so it is a sequence of entries in order of first arrival.
HasIndex(buf, i) == \E k \in 1..Len(buf) : buf[k].index = i
PosOf(buf, i)    == CHOOSE k \in 1..Len(buf) : buf[k].index = i

\* first fragment of an index
NewEntry(f) ==
    [index |-> f.index,
     id    |-> GetDefault(f.id),
     name  |-> GetDefault(f.name),
     args  |-> GetDefault(f.args)]

\* a later fragment that replaces the stored arguments instead of extending them
UpdateEntry_Overwrite(e, f) ==
    [e EXCEPT !.id   = IF Truthy(f.id) THEN f.id ELSE @,
              !.name = IF Truthy(f.name) THEN f.name ELSE @,
              !.args = IF Truthy(f.args) THEN f.args ELSE @]

\* a later fragment of an index: id and name are replaced when the fragment
\* carries a non-empty one
UpdateIdName(e, f) ==
    [e EXCEPT !.id   = IF Truthy(f.id) THEN f.id ELSE @,
              !.name = IF Truthy(f.name) THEN f.name ELSE @]

\* a later fragment whose empty id or name wipes the stored one
UpdateEntry_BlankOverwrites(e, f) ==
    [e EXCEPT !.id   = IF f.id = Empty \/ Truthy(f.id) THEN f.id ELSE @,
              !.name = IF f.name = Empty \/ Truthy(f.name) THEN f.name ELSE @,
              !.args = IF Truthy(f.args) THEN @ \o f.args ELSE @]

\* a later fragment of an index: then the arguments are extended
UpdateEntry(e, f) ==
    [UpdateIdName(e, f) EXCEPT !.args = IF Truthy(f.args) THEN @ \o f.args ELSE @]

\* `existing['function']['arguments'] += ...` on a stored None is a TypeError
IngestRaises(buf, f) ==
    /\ f.index # NoIndex
    /\ HasIndex(buf, f.index)
    /\ Truthy(f.args)
    /\ buf[PosOf(buf, f.index)].args = Null

\* an ingest that extends the entry created last, whatever the index
Ingest_LastEntry(buf, f) ==
    IF f.index = NoIndex THEN buf
    ELSE IF ~HasIndex(buf, f.index) THEN Append(buf, NewEntry(f))
    ELSE [buf EXCEPT ![Len(buf)] = UpdateEntry(@, f)]

Ingest(buf, f) ==
    IF f.index = NoIndex THEN buf
    ELSE IF ~HasIndex(buf, f.index) THEN Append(buf, NewEntry(f))
    ELSE [buf EXCEPT ![PosOf(buf, f.index)] = UpdateEntry(@, f)]

\* the loop over delta['tool_calls']: the buffer after the fragments, and
\* whether one of them raised (id and name of the entry are already updated
\* when the `+=` raises)
RECURSIVE IngestAll(_, _)
IngestAll(buf, fs) ==
    IF fs = << >> THEN [buf |-> buf, raised |-> FALSE]
    ELSE IF IngestRaises(buf, Head(fs))
    THEN [buf |-> [buf EXCEPT ![PosOf(buf, Head(fs).index)] = UpdateIdName(@, Head(fs))],
          raised |-> TRUE]
    ELSE IngestAll(Ingest(buf, Head(fs)), Tail(fs))

\* the dict stored in the buffer for an entry (the index is its key)
ToolCallDict(e) ==
    [type |-> "function", id |-> e.id, name |-> e.name, arguments |-> e.args]

\* ------------------------------------------------------------- messages
\* Optional[List[...]] of ChatMessage.tool_calls
NoList   == [kind |-> "none"]
List(xs) == [kind |-> "list", items |-> xs]

\* chat.ChatMessage(role=..., content=..., ...): unset fields default to None
ChatMessage(role, content, name, tool_call_id, tool_calls) ==
    [role |-> role, content |-> content, name |-> name,
     tool_call_id |-> tool_call_id, tool_calls |-> tool_calls]

\* the dict chat_completion_stream builds for one message: name, tool_call_id
\* and tool_calls are included only when they are not None
ToWire(m) ==
    [role         |-> m.role,
     content      |-> m.content,
     name         |-> IF m.name = Null THEN Absent ELSE m.name,
     tool_call_id |-> IF m.tool_call_id = Null THEN Absent ELSE m.tool_call_id,
     tool_calls   |-> IF m.tool_calls = NoList THEN [kind |-> "absent"] ELSE m.tool_calls]

MessagesData(ms) == [k \in 1..Len(ms) |-> ToWire(ms[k])]

SystemPrompt == Text(<<"sys">>)
UserContents == {<<"q">>}

\* request.messages of the client, and the list built from it with the
\* system prompt prepended
RequestMessages(uc) == <<ChatMessage("user", Text(uc), Null, Null, NoList)>>
InitialMessages(uc) ==
    <<ChatMessage("system", SystemPrompt, Null, Null, NoList)>> \o RequestMessages(uc)

\* ---------------------------------------------------- ConversationService
StoreOutcomes == {"ok", "none", "raise"}

\* the ConversationMessage row add_message inserts
\* Conversation rows.  updated_at has no default (onupdate only): a row never
\* updated holds NULL there
NoTime == -1
TitleLimit == 50
Ellipsis == <<".", ".", ".">>

Conversation(id, user_id, title) ==
    [id |-> id, user_id |-> user_id, title |-> title, is_active |-> TRUE,
     updated_at |-> NoTime]

\* str(uuid.uuid4()): an id no row has yet
NewConversationId(convs) == Len(convs) + 1

\* s[:n]
Prefix(s, n) == IF Len(s) > n THEN SubSeq(s, 1, n) ELSE s

\* ORDER BY updated_at DESC: a row comes before another when its updated_at
\* is later; NULL sorts first in descending order
SortsBefore(a, b) ==
    \/ a.updated_at = NoTime /\ b.updated_at # NoTime
    \/ a.updated_at # NoTime /\ b.updated_at # NoTime /\ a.updated_at > b.updated_at

\* the rows the SELECT of get_or_create_conversation may return with LIMIT 1:
\* the active conversations of the user that no other one sorts before
ActiveConversations(convs, user_id) ==
    {k \in 1..Len(convs) :
        /\ convs[k].user_id = user_id /\ convs[k].is_active
        /\ \A j \in 1..Len(convs) :
              convs[j].user_id = user_id /\ convs[j].is_active
                  => ~SortsBefore(convs[j], convs[k])}

\* content[:50] + "..." if len(content) > 50 else content
TitleFor(s) == IF Len(s) > TitleLimit THEN Prefix(s, TitleLimit) \o Ellipsis ELSE s

\* SELECT count(id) WHERE conversation_id = ...; the session does not
\* autoflush, so the row being added is not counted
MessageCount(lg, cid) == Cardinality({k \in 1..Len(lg) : lg[k].conversation_id = cid})

\* what a committed add_message does to the conversation row
TouchConversation(convs, lg, cid, role, content, now) ==
    [k \in 1..Len(convs) |->
        IF convs[k].id # cid THEN convs[k]
        ELSE [convs[k] EXCEPT
                !.updated_at = now,
                !.title = IF MessageCount(lg, cid) = 0 /\ role = "user"
                          THEN TitleFor(content.text) ELSE @]]

MessageRow(cid, role, content, name) ==
    [conversation_id |-> cid, role |-> role, content |-> StripContent(content),
     name |-> name, tokens |-> 0]

\* an add_message whose row lands ahead of the rows already stored
AddMessage_Prepend(lg, convs, cid, role, content, name, now, outcome) ==
    IF IsBlank(content) THEN [log |-> lg, convs |-> convs, raised |-> FALSE]
    ELSE IF outcome = "ok"
         THEN [log |-> <<MessageRow(cid, role, content, name)>> \o lg,
               convs |-> TouchConversation(convs, lg, cid, role, content, now),
               raised |-> FALSE]
    ELSE IF outcome = "none" THEN [log |-> lg, convs |-> convs, raised |-> FALSE]
    ELSE [log |-> lg, convs |-> convs, raised |-> TRUE]

\* an add_message without the check of blank content
AddMessage_NoBlankCheck(lg, convs, cid, role, content, name, now, outcome) ==
    IF outcome = "ok"
    THEN [log |-> Append(lg, MessageRow(cid, role, content, name)),
          convs |-> TouchConversation(convs, lg, cid, role, content, now),
          raised |-> FALSE]
    ELSE IF outcome = "none" THEN [log |-> lg, convs |-> convs, raised |-> FALSE]
    ELSE [log |-> lg, convs |-> convs, raised |-> TRUE]

\* add_message: blank content returns None before touching the store; "ok"
\* commits the row together with the conversation's updated_at and, for the
\* first message when it is a user message, its title; "none" is a failed
\* commit that is rolled back (or a conversation that is not found), "raise"
\* an exception that escapes (get_conversation or the rollback failing)
AddMessage(lg, convs, cid, role, content, name, now, outcome) ==
    IF IsBlank(content) THEN [log |-> lg, convs |-> convs, raised |-> FALSE]
    ELSE IF \A k \in 1..Len(convs) : convs[k].id # cid
         THEN [log |-> lg, convs |-> convs, raised |-> FALSE]
    ELSE IF outcome = "ok"
         THEN [log |-> Append(lg, MessageRow(cid, role, content, name)),
               convs |-> TouchConversation(convs, lg, cid, role, content, now),
               raised |-> FALSE]
    ELSE IF outcome = "none" THEN [log |-> lg, convs |-> convs, raised |-> FALSE]
    ELSE [log |-> lg, convs |-> convs, raised |-> TRUE]

\* whether the call reached the store and the store failed
AddFault(content, outcome) == IF ~IsBlank(content) /\ outcome # "ok" THEN 1 ELSE 0

\* ----------------------------------------------------------- AiToolService
CreateTrip == <<"create_trip">>

\* argument strings: the complete JSON object of a valid trip (it arrives in
\* two fragments), one whose start date is after its end date, one with a
\* date that is not YYYY-MM-DD, a JSON object without the required fields,
\* and JSON that is not an object; any other string is not JSON
ValidArgs      == <<"x", "y">>
LateStartArgs  == <<"late_start">>
BadDateArgs    == <<"bad_date">>
NoFieldArgs    == <<"{}">>
NonObjectArgs  == <<"[]">>

NoData       == [kind |-> "none"]
TripData(id) == [kind |-> "trip", trip_id |-> id]

ToolCallResult(name, success, data, error) ==
    [tool_name |-> name, success |-> success, data |-> data, error |-> error]

\* what the store does when execute_create_trip reaches it: everything works,
\* the commit fails (and the rollback works), the commit and the rollback
\* fail, or the refresh after a successful commit fails
ExecOutcomes == {"ok", "commit_fail", "rollback_fail", "refresh_fail"}

\* json.loads(arguments) and CreateTripTool(**params_dict), then _parse_date
ArgsClass(arguments) ==
    IF arguments = Null THEN "type_error"
    ELSE IF arguments \in {ValidArgs, LateStartArgs} THEN "valid"
    ELSE IF arguments = BadDateArgs THEN "bad_date"
    ELSE IF arguments = NoFieldArgs THEN "missing_field"
    ELSE IF arguments = NonObjectArgs THEN "type_error"
    ELSE "malformed"

\* the two dates of parsable arguments, as day numbers
StartDate(arguments) == IF arguments = LateStartArgs THEN 2 ELSE 1
EndDate(arguments)   == IF arguments = LateStartArgs THEN 1 ELSE 2

\* whether execute_tool_call reaches db.commit()
ReachesStore(tool_name, arguments) ==
    /\ tool_name = CreateTrip
    /\ ArgsClass(arguments) = "valid"
    /\ StartDate(arguments) <= EndDate(arguments)

\* the Trip row of models/trip.py as execute_create_trip fills it
Trip(id, user, start, end) ==
    [id |-> id, user_id |-> user, start_date |-> start, end_date |-> end,
     actual_expense |-> 0, created_at |-> 0]

\* the fields schemas.trip.Trip requires of the object it validates
TripSchemaRequired == {"id", "user_id", "actual_expense", "conversation_id", "created_at"}

\* TripSchema.model_validate(trip) with from_attributes: a required field the
\* row has no attribute for is a ValidationError, which is a ValueError
ModelValidateRaises(row) == ~(TripSchemaRequired \subseteq DOMAIN row)

\* execute_create_trip: the result, the trip store after it, and whether an
\* exception leaves it (the rollback of its except branch failing)
ExecuteCreateTrip(arguments, user, ts, outcome) ==
    LET row == Trip(Len(ts) + 1, user, StartDate(arguments), EndDate(arguments))
        Fail(err, store) ==
            [result |-> ToolCallResult(CreateTrip, FALSE, NoData, err),
             trips |-> store, raised |-> FALSE]
    IN
    IF ArgsClass(arguments) = "bad_date" THEN Fail(<<"date_format">>, ts)
    ELSE IF StartDate(arguments) > EndDate(arguments)
    THEN Fail(<<"start_after_end">>, ts)
    ELSE IF outcome = "commit_fail" THEN Fail(<<"create_failed">>, ts)
    ELSE IF outcome = "rollback_fail"
    THEN [result |-> ToolCallResult(CreateTrip, FALSE, NoData, Null),
          trips |-> ts, raised |-> TRUE]
    ELSE IF outcome = "refresh_fail" THEN Fail(<<"create_failed">>, Append(ts, row))
    ELSE IF ModelValidateRaises(row) THEN Fail(<<"date_format">>, Append(ts, row))
    ELSE [result |-> ToolCallResult(CreateTrip, TRUE, TripData(row.id), Null),
          trips |-> Append(ts, row), raised |-> FALSE]

\* the body of execute_tool_call's try block
ExecuteBody(tool_name, arguments, user, ts, outcome) ==
    LET Fail(err) == [result |-> ToolCallResult(tool_name, FALSE, NoData, err),
                      trips |-> ts, raised |-> FALSE]
        Raised == [result |-> ToolCallResult(tool_name, FALSE, NoData, Null),
                   trips |-> ts, raised |-> TRUE]
    IN
    IF tool_name # CreateTrip THEN Fail(<<"unknown_tool">>)
    ELSE IF ArgsClass(arguments) = "malformed" THEN Fail(<<"parse_failed">>)
    ELSE IF ArgsClass(arguments) \in {"type_error", "missing_field"} THEN Raised
    ELSE ExecuteCreateTrip(arguments, user, ts, outcome)

\* an execute_tool_call without the final `except Exception`
ExecuteToolCall_NoCatchAll(tool_name, arguments, user, ts, outcome) ==
    ExecuteBody(tool_name, arguments, user, ts, outcome)

\* a result that carries its data next to the error
ExecuteToolCall_DataWithError(tool_name, arguments, user, ts, outcome) ==
    LET r == ExecuteBody(tool_name, arguments, user, ts, outcome) IN
    [r EXCEPT !.result.data = TripData(Len(r.trips)), !.raised = FALSE]

\* execute_tool_call: the result it returns, the trip store after it, and
\* whether it raised; `except Exception` turns whatever the body raised into
\* a failure result
ExecuteToolCall(tool_name, arguments, user, ts, outcome) ==
    LET r == ExecuteBody(tool_name, arguments, user, ts, outcome) IN
    IF r.raised
    THEN [result |-> ToolCallResult(tool_name, FALSE, NoData, <<"tool_failed">>),
          trips |-> r.trips, raised |-> FALSE]
    ELSE r

ExecFault(tool_name, arguments, outcome) ==
    IF ReachesStore(tool_name, arguments) /\ outcome # "ok" THEN 1 ELSE 0

\* ------------------------------------------------------ upstream chunks
\* a StreamChatResponse as generate() reads it: whether choices is non-empty,
\* delta.content, and delta.tool_calls (a list of fragment dicts)
Chunk(choices, content, tool_calls) ==
    [choices |-> choices, content |-> content, tool_calls |-> tool_calls]

Fragment(index, id, name, args) ==
    [index |-> index, id |-> id, name |-> name, args |-> args]

CallId(i) == IF i = 0 THEN <<"call_0">> ELSE <<"call_1">>

\* the fragments an upstream sends: an opening fragment with id, name and the
\* first piece of the arguments; one for a tool that is not registered; one
\* without a name; one whose arguments are null; a continuation fragment
\* carrying only a piece of the arguments (with an empty id); and a fragment
\* without index
Fragments ==
    {Fragment(0, CallId(0), CreateTrip, <<"x">>),
     Fragment(1, CallId(1), <<"other_tool">>, <<"x">>),
     Fragment(0, CallId(0), Absent, <<"x">>),
     Fragment(0, CallId(0), CreateTrip, Null),
     Fragment(0, Empty, Absent, <<"y">>),
     Fragment(NoIndex, Absent, CreateTrip, <<"x">>)}

Chunks1 ==
    {Chunk(TRUE, c, << >>) : c \in {<<"a">>, <<" ">>}}
    \cup {Chunk(FALSE, Absent, << >>)}
    \cup {Chunk(TRUE, Null, <<f>>) : f \in Fragments}

\* pass 2: text, or a chunk that asks for a further tool
Chunks2 ==
    {Chunk(TRUE, c, << >>) : c \in {<<"b">>, <<" ">>}}
    \cup {Chunk(TRUE, Null, <<Fragment(0, <<"call_2">>, CreateTrip, ValidArgs)>>)}

\* ------------------------------------------------------------ SSE events
ContentEvent(delta) == [type |-> "content", delta |-> delta]
KeepAlive  == [type |-> "keepalive"]
DoneEvent  == [type |-> "done"]
ErrorEvent == [type |-> "error"]

\* ------------------------------------------------------------ ChatClient
\* an upstream response: its status and the body read when the status is not
\* 200; status 0 stands for a request that got no response (transport error)
NoBody == [kind |-> "none"]
JsonBody(message) == [kind |-> "json_message", raw |-> <<"raw_json">>, message |-> message]
JsonOtherBody == [kind |-> "json_other", raw |-> <<"raw_other">>]
TextBody == [kind |-> "text", raw |-> <<"raw_text">>]

Response(status, body) == [status |-> status, body |-> body]
TransportFailure == Response(0, NoBody)

\* error_data.get("error", {}).get("message", error_text_str), and the raw
\* text when the body is not JSON of that shape
ExtractMessage(body) ==
    IF body.kind = "json_message" THEN body.message
    ELSE IF body.kind = "none" THEN Empty
    ELSE body.raw

\* response.raise_for_status(): HTTPStatusError unless the status is 2xx
RaisesForStatus(status) == status < 200 \/ status >= 300

HTTPException(status_code, kind, message) ==
    [status_code |-> status_code, kind |-> kind, message |-> message]

\* a handler that passes every upstream status on as it came
HandleApiError_SameStatus(status, message) == HTTPException(status, "generic", message)

\* _handle_api_error: the HTTPException raised for a status
HandleApiError(status, message) ==
    IF status = 401 THEN HTTPException(401, "auth", message)
    ELSE IF status = 429 THEN HTTPException(429, "rate_limit", message)
    ELSE IF status >= 500 THEN HTTPException(503, "unavailable", message)
    ELSE HTTPException(status, "generic", message)

\* `except Exception` of chat_completion_stream
InternalError == HTTPException(500, "internal", <<"stream_failed">>)

NoError == [kind |-> "none"]

\* what chat_completion_stream raises on a response, if anything
ChatCompletionError(resp) ==
    IF resp = TransportFailure THEN InternalError
    ELSE IF resp.status # 200 /\ RaisesForStatus(resp.status)
    THEN HandleApiError(resp.status, ExtractMessage(resp.body))
    ELSE NoError

NoUpstream == [response |-> Response(0, NoBody), error |-> NoError, lines |-> << >>]

\* the failures generate() is run against: no response, and a refused key
SpecFailures == {TransportFailure, Response(401, JsonBody(<<"bad_key">>))}

\* ----------------------------------------------------------------- state
VARIABLES
    pc,                          \* where the request is
    messages,                    \* the outbound message list `messages`
    calls,                       \* messages_data of each upstream request made
    stream1, stream2,            \* the two upstream streams: idle/open/drained/failed/closed
    seen1, seen2,                \* chunks read from each of them
    full_content,
    assistant_response_content,
    tool_calls_buffer,
    toolPos,                     \* position of the tool loop in the buffer
    tool_results,
    execs,                       \* execute_tool_call invocations, in order
    log,                         \* ConversationMessage rows this request committed
    trips,                       \* Trip rows
    apilog,                      \* APILog rows
    sse,                         \* events yielded to the client
    faults,                      \* store failures so far
    errPhase,                    \* pc at which an exception was raised, or "none"
    upstream,                    \* the upstream response in hand and the error
                                 \* chat_completion_stream raised for it
    conversations,               \* Conversation rows
    reqs,                        \* requests that reached the handler: user,
                                 \* content, position, conversation in hand
    user_limits,                 \* UserRateLimiter.user_limits
    clock                        \* time.time() / datetime.now()

vars == <<pc, messages, calls, stream1, stream2, seen1, seen2, full_content,
          assistant_response_content, tool_calls_buffer, toolPos, tool_results,
          execs, log, trips, apilog, sse, faults, errPhase, upstream,
          conversations, reqs, user_limits, clock>>

UserId == 1

\* UserRateLimiter.__init__: self.user_limits = {}
NoLimits == [k \in {} |-> 0]

Init ==
    /\ pc = "init"
    /\ messages = << >>
    /\ calls = << >>
    /\ stream1 = "idle"
    /\ stream2 = "idle"
    /\ seen1 = << >>
    /\ seen2 = << >>
    /\ full_content = Empty
    /\ assistant_response_content = Empty
    /\ tool_calls_buffer = << >>
    /\ toolPos = 1
    /\ tool_results = << >>
    /\ execs = << >>
    /\ log = << >>
    /\ trips = << >>
    /\ apilog = << >>
    /\ sse = << >>
    /\ faults = 0
    /\ errPhase = "none"
    /\ upstream = NoUpstream
    /\ conversations = << >>
    /\ reqs = << >>
    /\ user_limits = NoLimits
    /\ clock = 0

\* an exception of the pass-2 loop swallowed there, the text read so far kept
RaiseTarget_KeepPartial(phase) == IF phase = "pass2" THEN "persist_final" ELSE "except"

\* the try/except Exception around the whole body of generate(): wherever
\* the exception is raised, control goes to the handler
RaiseTarget(phase) == "except"

\* an exception raised at the current pc
Raise ==
    /\ pc' = RaiseTarget(pc)
    /\ errPhase' = pc

APILogRow(status) == [status_code |-> status, endpoint |-> "chat/completions/stream"]

\* create_log has no handler of its own: the commit may fail (no row is
\* written) or the refresh after a successful commit may fail (the row is
\* written); both raise to the caller
LogOutcomes == {"ok", "commit_fail", "refresh_fail"}

\* APILogService.create_log: the rows after the call and whether it raised
CreateLog(al, status, outcome) ==
    [apilog |-> IF outcome = "commit_fail" THEN al ELSE Append(al, APILogRow(status)),
     raised |-> outcome # "ok"]

LogFault(outcome) == IF outcome = "ok" THEN 0 ELSE 1

\* -------------------------------------------- create_chat_completion_stream
\* the part of the handler that runs before the response starts: the
\* conversation is resolved, the user message appended, the message list
\* built.  An exception here is answered with HTTP 500 and no stream.
\* get_or_create_conversation run without interruption: the most recently
\* updated active conversation of the user, or a new one with the given title
GetOrCreateConversation(convs, user_id, title) ==
    IF ActiveConversations(convs, user_id) = {}
    THEN [convs |-> Append(convs, Conversation(NewConversationId(convs), user_id, title)),
          id |-> NewConversationId(convs)]
    ELSE [convs |-> convs,
          id |-> convs[CHOOSE k \in ActiveConversations(convs, user_id) : TRUE].id]

\* conversation.id of the request
ConversationId == conversations[1].id

StartRequest(uc, outcome) ==
    /\ pc = "init"
    /\ faults + AddFault(Text(uc), outcome) <= MaxFaults
    /\ LET created == GetOrCreateConversation(conversations, UserId, Prefix(uc, TitleLimit))
           r == AddMessage(log, created.convs, created.id, "user", Text(uc), Null,
                           clock, outcome) IN
        /\ log' = r.log
        /\ conversations' = r.convs
        /\ faults' = faults + AddFault(Text(uc), outcome)
        /\ IF r.raised
           THEN /\ pc' = "http500"
                /\ errPhase' = "init"
                /\ apilog' = Append(apilog, APILogRow(500))
                /\ messages' = messages
           ELSE /\ pc' = "open1"
                /\ errPhase' = errPhase
                /\ apilog' = apilog
                /\ messages' = InitialMessages(uc)
    /\ UNCHANGED <<reqs, user_limits, clock, upstream, calls, stream1, stream2, seen1, seen2, full_content,
                   assistant_response_content, tool_calls_buffer, toolPos,
                   tool_results, execs, trips, sse>>

\* ------------------------------------------------------------ generate()
\* chat_service.chat_completion_stream(messages, tools) of pass 1
OpenPass1 ==
    /\ pc = "open1"
    /\ pc' = "pass1"
    /\ calls' = Append(calls, MessagesData(messages))
    /\ stream1' = "open"
    /\ UNCHANGED <<conversations, reqs, user_limits, clock, upstream, messages, stream2, seen1, seen2, full_content,
                   assistant_response_content, tool_calls_buffer, toolPos,
                   tool_results, execs, log, trips, apilog, sse, faults, errPhase>>

\* delta.get('content', '') or "" of a chunk with choices
ChunkContent(ch) == IF ch.choices THEN OrEmpty(ch.content) ELSE Empty

\* the events one chunk yields: a content event if content is non-empty, and
\* the keep-alive unless the chunk's processing raised
ChunkEvents(ch, raised) ==
    (IF ChunkContent(ch) # Empty THEN <<ContentEvent(ChunkContent(ch))>> ELSE << >>)
    \o (IF raised THEN << >> ELSE <<KeepAlive>>)

\* one iteration of the pass-1 loop
Pass1Chunk(ch) ==
    /\ pc = "pass1"
    /\ Len(seen1) < MaxChunks1
    /\ LET r == IF ch.choices THEN IngestAll(tool_calls_buffer, ch.tool_calls)
                ELSE [buf |-> tool_calls_buffer, raised |-> FALSE] IN
        /\ seen1' = Append(seen1, ch)
        /\ full_content' = full_content \o ChunkContent(ch)
        /\ sse' = sse \o ChunkEvents(ch, r.raised)
        /\ tool_calls_buffer' = r.buf
        /\ IF r.raised
           THEN Raise /\ stream1' = "closed"
           ELSE UNCHANGED <<pc, errPhase, stream1>>
    /\ UNCHANGED <<conversations, reqs, user_limits, clock, upstream, messages, calls, stream2, seen2, assistant_response_content,
                   toolPos, tool_results, execs, log, trips, apilog, faults>>

\* `if tool_calls_buffer:` after the pass-1 loop
HasToolCalls(buf) == buf # << >>

\* the upstream stream of pass 1 ends ([DONE] or end of body)
Pass1End ==
    /\ pc = "pass1"
    /\ stream1' = "drained"
    /\ pc' = IF HasToolCalls(tool_calls_buffer) THEN "tools" ELSE "persist_final"
    /\ UNCHANGED <<conversations, reqs, user_limits, clock, upstream, messages, calls, stream2, seen1, seen2, full_content,
                   assistant_response_content, tool_calls_buffer, toolPos,
                   tool_results, execs, log, trips, apilog, sse, faults, errPhase>>

\* the upstream call of pass 1 fails: a status that is not 2xx, seen before
\* the first chunk, or a transport error at any chunk
Pass1Fail(resp) ==
    /\ pc = "pass1"
    /\ resp # TransportFailure => seen1 = << >>
    /\ upstream' = [response |-> resp, error |-> ChatCompletionError(resp), lines |-> << >>]
    /\ stream1' = "failed"
    /\ Raise
    /\ UNCHANGED <<conversations, reqs, user_limits, clock, messages, calls, stream2, seen1, seen2, full_content,
                   assistant_response_content, tool_calls_buffer, toolPos,
                   tool_results, execs, log, trips, apilog, sse, faults>>

\* `if not tool_name: continue` of the tool loop
ToolSkipped(e) == ~Truthy(e.name)

\* an entry without a name is passed over
ToolSkip ==
    /\ pc = "tools"
    /\ toolPos <= Len(tool_calls_buffer)
    /\ ToolSkipped(tool_calls_buffer[toolPos])
    /\ toolPos' = toolPos + 1
    /\ UNCHANGED <<conversations, reqs, user_limits, clock, upstream, pc, messages, calls, stream1, stream2, seen1, seen2,
                   full_content, assistant_response_content, tool_calls_buffer,
                   tool_results, execs, log, trips, apilog, sse, faults, errPhase>>

\* tool_service.execute_tool_call for the entry at toolPos, and the append to
\* tool_results
ToolExec(outcome) ==
    /\ pc = "tools"
    /\ toolPos <= Len(tool_calls_buffer)
    /\ LET e == tool_calls_buffer[toolPos]
           r == ExecuteToolCall(e.name, e.args, UserId, trips, outcome) IN
        /\ ~ToolSkipped(e)
        /\ ReachesStore(e.name, e.args) \/ outcome = "ok"
        /\ faults + ExecFault(e.name, e.args, outcome) <= MaxFaults
        /\ faults' = faults + ExecFault(e.name, e.args, outcome)
        /\ trips' = r.trips
        /\ execs' = Append(execs, [tool_call_id |-> e.id, tool_name |-> e.name,
                                   arguments |-> e.args, index |-> e.index,
                                   stream1 |-> stream1, stream2 |-> stream2])
        /\ tool_results' = IF r.raised THEN tool_results
                           ELSE Append(tool_results,
                                    [tool_call_id |-> e.id, result |-> r.result,
                                     tool_name |-> e.name])
        /\ IF r.raised THEN Raise
           ELSE pc' = "persist_call" /\ errPhase' = errPhase
    /\ UNCHANGED <<conversations, reqs, user_limits, clock, upstream, messages, calls, stream1, stream2, seen1, seen2, full_content,
                   assistant_response_content, tool_calls_buffer, toolPos, log,
                   apilog, sse>>

\* content of the assistant row saved for one call
ToolCallsContent(e) == JsonDumps([tool_calls |-> <<ToolCallDict(e)>>])

\* add_message(role="assistant", content=json.dumps({"tool_calls": [tool_call]}))
PersistToolCall(outcome) ==
    /\ pc = "persist_call"
    /\ faults + AddFault(ToolCallsContent(tool_calls_buffer[toolPos]), outcome) <= MaxFaults
    /\ LET c == ToolCallsContent(tool_calls_buffer[toolPos])
           r == AddMessage(log, conversations, ConversationId, "assistant", c,
                           <<"assistant">>, clock, outcome) IN
        /\ log' = r.log
        /\ conversations' = r.convs
        /\ faults' = faults + AddFault(c, outcome)
        /\ IF r.raised THEN Raise
           ELSE pc' = "persist_result" /\ errPhase' = errPhase
    /\ UNCHANGED <<reqs, user_limits, clock, upstream, messages, calls, stream1, stream2, seen1, seen2, full_content,
                   assistant_response_content, tool_calls_buffer, toolPos,
                   tool_results, execs, trips, apilog, sse>>

\* add_message(role="tool", content=json.dumps(result.dict()), name=tool_name)
PersistToolResult(outcome) ==
    /\ pc = "persist_result"
    /\ LET t == tool_results[Len(tool_results)]
           c == JsonDumps(t.result)
           r == AddMessage(log, conversations, ConversationId, "tool", c, t.tool_name,
                           clock, outcome) IN
        /\ faults + AddFault(c, outcome) <= MaxFaults
        /\ log' = r.log
        /\ conversations' = r.convs
        /\ faults' = faults + AddFault(c, outcome)
        /\ IF r.raised THEN Raise /\ toolPos' = toolPos
           ELSE pc' = "tools" /\ errPhase' = errPhase /\ toolPos' = toolPos + 1
    /\ UNCHANGED <<reqs, user_limits, clock, upstream, messages, calls, stream1, stream2, seen1, seen2, full_content,
                   assistant_response_content, tool_calls_buffer, tool_results,
                   execs, trips, apilog, sse>>

\* list(tool_calls_buffer.values())
ToolCallsList(buf) == [k \in 1..Len(buf) |-> ToolCallDict(buf[k])]

\* the assistant message carrying the tool calls
AssistantToolCallsMessage(buf) ==
    ChatMessage("assistant", Text(Empty), Null, Null, List(ToolCallsList(buf)))

\* the tool message of one result
ToolMessage(t) == ChatMessage("tool", JsonDumps(t.result), Null, t.tool_call_id, NoList)

\* a pass-2 list that carries the tool messages without the assistant message
\* of the calls they answer
Pass2Messages_NoAssistant(ms, buf, results) ==
    ms \o [k \in 1..Len(results) |-> ToolMessage(results[k])]

\* the message list of pass 2
Pass2Messages(ms, buf, results) ==
    ms \o <<AssistantToolCallsMessage(buf)>>
       \o [k \in 1..Len(results) |-> ToolMessage(results[k])]

\* after the tool loop: the messages are extended and the second upstream
\* call is made
OpenPass2 ==
    /\ pc = "tools"
    /\ toolPos > Len(tool_calls_buffer)
    /\ messages' = Pass2Messages(messages, tool_calls_buffer, tool_results)
    /\ calls' = Append(calls, MessagesData(messages'))
    /\ stream2' = "open"
    /\ pc' = "pass2"
    /\ UNCHANGED <<conversations, reqs, user_limits, clock, upstream, stream1, seen1, seen2, full_content, assistant_response_content,
                   tool_calls_buffer, toolPos, tool_results, execs, log, trips,
                   apilog, sse, faults, errPhase>>

\* one iteration of the pass-2 loop: only delta.content is read
Pass2Chunk(ch) ==
    /\ pc = "pass2"
    /\ Len(seen2) < MaxChunks2
    /\ seen2' = Append(seen2, ch)
    /\ assistant_response_content' = assistant_response_content \o ChunkContent(ch)
    /\ full_content' = full_content \o ChunkContent(ch)
    /\ sse' = sse \o ChunkEvents(ch, FALSE)
    /\ UNCHANGED <<conversations, reqs, user_limits, clock, upstream, pc, messages, calls, stream1, stream2, seen1, tool_calls_buffer,
                   toolPos, tool_results, execs, log, trips, apilog, faults, errPhase>>

\* a pass 2 after which the tool phase is entered again
AfterPass2_ToolsAgain == "tools"

\* where generate() continues when the pass-2 loop ends: whatever the stream
\* carried, the final message is saved next
AfterPass2 == "persist_final"

\* the upstream stream of pass 2 ends
Pass2End ==
    /\ pc = "pass2"
    /\ stream2' = "drained"
    /\ pc' = AfterPass2
    /\ UNCHANGED <<conversations, reqs, user_limits, clock, upstream, messages, calls, stream1, seen1, seen2, full_content,
                   assistant_response_content, tool_calls_buffer, toolPos,
                   tool_results, execs, log, trips, apilog, sse, faults, errPhase>>

Pass2Fail(resp) ==
    /\ pc = "pass2"
    /\ resp # TransportFailure => seen2 = << >>
    /\ upstream' = [response |-> resp, error |-> ChatCompletionError(resp), lines |-> << >>]
    /\ stream2' = "failed"
    /\ Raise
    /\ UNCHANGED <<conversations, reqs, user_limits, clock, messages, calls, stream1, seen1, seen2, full_content,
                   assistant_response_content, tool_calls_buffer, toolPos,
                   tool_results, execs, log, trips, apilog, sse, faults>>

\* a final text taken from the pass-2 accumulator in both branches
FinalContent_SecondOnly(buf, full, second) == second

\* the text saved as the final assistant message: assistant_response_content
\* after a tool round-trip, full_content otherwise
FinalContent(buf, full, second) == IF HasToolCalls(buf) THEN second ELSE full

\* the final add_message, made only `if <content>:`
PersistFinal(outcome) ==
    /\ pc = "persist_final"
    /\ LET c == Text(FinalContent(tool_calls_buffer, full_content,
                                  assistant_response_content))
           skip == c.text = Empty
           r == IF skip THEN [log |-> log, convs |-> conversations, raised |-> FALSE]
                ELSE AddMessage(log, conversations, ConversationId, "assistant", c,
                                <<"assistant">>, clock, outcome)
           f == IF skip THEN 0 ELSE AddFault(c, outcome) IN
        /\ faults + f <= MaxFaults
        /\ faults' = faults + f
        /\ log' = r.log
        /\ conversations' = r.convs
        /\ IF r.raised THEN Raise
           ELSE pc' = "log200" /\ errPhase' = errPhase
    /\ UNCHANGED <<reqs, user_limits, clock, upstream, messages, calls, stream1, stream2, seen1, seen2, full_content,
                   assistant_response_content, tool_calls_buffer, toolPos,
                   tool_results, execs, trips, apilog, sse>>

\* create_log(status_code=200) and the [DONE] event
LogSuccess(outcome) ==
    /\ pc = "log200"
    /\ faults + LogFault(outcome) <= MaxFaults
    /\ faults' = faults + LogFault(outcome)
    /\ LET r == CreateLog(apilog, 200, outcome) IN
        /\ apilog' = r.apilog
        /\ IF r.raised
           THEN Raise /\ sse' = sse
           ELSE /\ sse' = Append(sse, DoneEvent)
                /\ pc' = "done"
                /\ errPhase' = errPhase
    /\ UNCHANGED <<conversations, reqs, user_limits, clock, upstream, messages, calls, stream1, stream2, seen1, seen2, full_content,
                   assistant_response_content, tool_calls_buffer, toolPos,
                   tool_results, execs, log, trips>>

\* the except branch: create_log(status_code=500), then the error event; a
\* create_log that raises here leaves generate() with the exception
HandleError(outcome) ==
    /\ pc = "except"
    /\ faults + LogFault(outcome) <= MaxFaults
    /\ faults' = faults + LogFault(outcome)
    /\ LET r == CreateLog(apilog, 500, outcome) IN
        /\ apilog' = r.apilog
        /\ IF r.raised
           THEN pc' = "crashed" /\ sse' = sse
           ELSE pc' = "failed" /\ sse' = Append(sse, ErrorEvent)
    /\ UNCHANGED <<conversations, reqs, user_limits, clock, upstream, messages, calls, stream1, stream2, seen1, seen2, full_content,
                   assistant_response_content, tool_calls_buffer, toolPos,
                   tool_results, execs, log, trips, errPhase>>

\* the client goes away while generate() is suspended at a yield of one of
\* the two loops: the generator is closed (GeneratorExit is not an Exception)
\* and with it the upstream response
\* an upstream response that stays open when its consumer is closed
StreamOnClose_Dangling(inflight, s) == s

\* the upstream response of a pass when generate() is closed: the closing of
\* the in-flight chat_completion_stream leaves `async with ... as response`,
\* which closes the connection; the stream of the other pass is not touched
StreamOnClose(inflight, s) == IF inflight THEN "closed" ELSE s

Disconnect ==
    /\ pc \in {"pass1", "pass2"}
    /\ sse # << >>
    /\ pc' = "cancelled"
    /\ stream1' = StreamOnClose(pc = "pass1", stream1)
    /\ stream2' = StreamOnClose(pc = "pass2", stream2)
    /\ UNCHANGED <<conversations, reqs, user_limits, clock, upstream, messages, calls, seen1, seen2, full_content,
                   assistant_response_content, tool_calls_buffer, toolPos,
                   tool_results, execs, log, trips, apilog, sse, faults, errPhase>>

Next ==
    \/ \E uc \in UserContents, o \in StoreOutcomes : StartRequest(uc, o)
    \/ OpenPass1
    \/ \E ch \in Chunks1 : Pass1Chunk(ch)
    \/ Pass1End
    \/ \E resp \in SpecFailures : Pass1Fail(resp)
    \/ ToolSkip
    \/ \E o \in ExecOutcomes : ToolExec(o)
    \/ \E o \in StoreOutcomes : PersistToolCall(o)
    \/ \E o \in StoreOutcomes : PersistToolResult(o)
    \/ OpenPass2
    \/ \E ch \in Chunks2 : Pass2Chunk(ch)
    \/ Pass2End
    \/ \E resp \in SpecFailures : Pass2Fail(resp)
    \/ \E o \in StoreOutcomes : PersistFinal(o)
    \/ \E o \in LogOutcomes : LogSuccess(o)
    \/ \E o \in LogOutcomes : HandleError(o)
    \/ Disconnect

Spec == Init /\ [][Next]_vars

\* the event loop keeps driving the generator while it has a step to take
FairSpec == Spec /\ WF_vars(Next)

\* ------------------------------------------------- the tool-call buffer alone
\* The assembly of lines 131-160 applied to every sequence of fragments up to
\* MaxFrags: fragments of two indexes, with id, name and arguments present,
\* missing, empty or null, and a fragment without index.
AsmFragments ==
    {Fragment(0, CallId(0), CreateTrip, <<"x">>),
     Fragment(0, Absent, Absent, <<"y">>),
     Fragment(0, Empty, <<"other_tool">>, Empty),
     Fragment(0, <<"call_9">>, Null, Absent),
     Fragment(1, CallId(1), <<"other_tool">>, <<"x">>),
     Fragment(1, Null, Empty, <<"y">>),
     Fragment(0, Absent, CreateTrip, Null),
     Fragment(NoIndex, CallId(0), CreateTrip, <<"x">>)}

AsmInit ==
    /\ pc = "asm"
    /\ messages = << >>
    /\ calls = << >>
    /\ stream1 = "open"
    /\ stream2 = "idle"
    /\ seen1 = << >>
    /\ seen2 = << >>
    /\ full_content = Empty
    /\ assistant_response_content = Empty
    /\ tool_calls_buffer = << >>
    /\ toolPos = 1
    /\ tool_results = << >>
    /\ execs = << >>
    /\ log = << >>
    /\ trips = << >>
    /\ apilog = << >>
    /\ sse = << >>
    /\ faults = 0
    /\ errPhase = "none"
    /\ upstream = NoUpstream
    /\ conversations = << >>
    /\ reqs = << >>
    /\ user_limits = NoLimits
    /\ clock = 0

\* one more fragment arrives and is ingested; a TypeError ends the assembly
AsmIngest(f) ==
    /\ pc = "asm"
    /\ Len(seen1) < MaxFrags
    /\ LET r == IngestAll(tool_calls_buffer, <<f>>) IN
        /\ seen1' = Append(seen1, Chunk(TRUE, Null, <<f>>))
        /\ tool_calls_buffer' = r.buf
        /\ pc' = IF r.raised THEN "asm_raised" ELSE "asm"
    /\ UNCHANGED <<conversations, reqs, user_limits, clock, upstream, messages, calls, stream1, stream2, seen2, full_content,
                   assistant_response_content, toolPos, tool_results, execs, log,
                   trips, apilog, sse, faults, errPhase>>

AsmNext == \E f \in AsmFragments : AsmIngest(f)

AsmSpec == AsmInit /\ [][AsmNext]_vars

\* ---------------------------------------------------- the tool service alone
\* execute_tool_call applied to every tool name, argument string and store
\* outcome, up to MaxCalls calls on one trip store
ExecNames == {CreateTrip, <<"other_tool">>}
ExecArgs ==
    {ValidArgs, LateStartArgs, BadDateArgs, NoFieldArgs, NonObjectArgs, <<"x">>, Null}

ExecInit ==
    /\ pc = "exec"
    /\ messages = << >>
    /\ calls = << >>
    /\ stream1 = "drained"
    /\ stream2 = "idle"
    /\ seen1 = << >>
    /\ seen2 = << >>
    /\ full_content = Empty
    /\ assistant_response_content = Empty
    /\ tool_calls_buffer = << >>
    /\ toolPos = 1
    /\ tool_results = << >>
    /\ execs = << >>
    /\ log = << >>
    /\ trips = << >>
    /\ apilog = << >>
    /\ sse = << >>
    /\ faults = 0
    /\ errPhase = "none"
    /\ upstream = NoUpstream
    /\ conversations = << >>
    /\ reqs = << >>
    /\ user_limits = NoLimits
    /\ clock = 0

ExecCall(name, arguments, outcome) ==
    /\ pc = "exec"
    /\ Len(execs) < MaxCalls
    /\ ReachesStore(name, arguments) \/ outcome = "ok"
    /\ LET r == ExecuteToolCall(name, arguments, UserId, trips, outcome) IN
        /\ trips' = r.trips
        /\ execs' = Append(execs, [tool_call_id |-> CallId(0), tool_name |-> name,
                                   arguments |-> arguments, outcome |-> outcome])
        /\ tool_results' = IF r.raised THEN tool_results
                           ELSE Append(tool_results,
                                    [tool_call_id |-> CallId(0), result |-> r.result,
                                     tool_name |-> name])
        /\ pc' = IF r.raised THEN "exec_raised" ELSE "exec"
    /\ UNCHANGED <<conversations, reqs, user_limits, clock, upstream, messages, calls, stream1, stream2, seen1, seen2, full_content,
                   assistant_response_content, tool_calls_buffer, toolPos, log,
                   apilog, sse, faults, errPhase>>

ExecNext ==
    \E name \in ExecNames, arguments \in ExecArgs, o \in ExecOutcomes :
        ExecCall(name, arguments, o)

ExecSpec == ExecInit /\ [][ExecNext]_vars

\* ------------------------------------------------------ the client alone
\* chat_completion_stream run on every response: statuses inside and outside
\* 2xx with the error bodies an upstream sends, and up to MaxLines body lines
ErrorBodies == {JsonBody(<<"m">>), JsonBody(Null), JsonOtherBody, TextBody}
ClientResponses ==
    {Response(st, NoBody) : st \in {200, 201}}
    \cup {Response(st, b) : st \in {302, 400, 401, 404, 429, 500, 503}, b \in ErrorBodies}

\* a body line: whether it starts with "data: ", and what follows the prefix
Line(data, payload) == [data |-> data, payload |-> payload]
ChunkPayload(ch) == [kind |-> "chunk", chunk |-> ch]
ClientLines ==
    {Line(TRUE, ChunkPayload(Chunk(TRUE, <<"a">>, << >>))),
     Line(TRUE, ChunkPayload(Chunk(TRUE, <<"b">>, << >>))),
     Line(FALSE, ChunkPayload(Chunk(TRUE, <<"a">>, << >>))),
     Line(TRUE, [kind |-> "done"]),
     Line(TRUE, [kind |-> "blank"]),
     Line(TRUE, [kind |-> "not_json"]),
     Line(TRUE, [kind |-> "other_json"])}

ClientInit ==
    /\ pc = "client_idle"
    /\ messages = << >>
    /\ calls = << >>
    /\ stream1 = "idle"
    /\ stream2 = "idle"
    /\ seen1 = << >>
    /\ seen2 = << >>
    /\ full_content = Empty
    /\ assistant_response_content = Empty
    /\ tool_calls_buffer = << >>
    /\ toolPos = 1
    /\ tool_results = << >>
    /\ execs = << >>
    /\ log = << >>
    /\ trips = << >>
    /\ apilog = << >>
    /\ sse = << >>
    /\ faults = 0
    /\ errPhase = "none"
    /\ upstream = NoUpstream
    /\ conversations = << >>
    /\ reqs = << >>
    /\ user_limits = NoLimits
    /\ clock = 0

\* the response arrives: its status is looked at before any line is read
ClientRespond(resp) ==
    /\ pc = "client_idle"
    /\ upstream' = [response |-> resp, error |-> ChatCompletionError(resp), lines |-> << >>]
    /\ IF ChatCompletionError(resp) # NoError
       THEN pc' = "client_raised" /\ stream1' = "failed"
       ELSE pc' = "client_stream" /\ stream1' = "open"
    /\ UNCHANGED <<conversations, reqs, user_limits, clock, messages, calls, stream2, seen1, seen2, full_content,
                   assistant_response_content, tool_calls_buffer, toolPos,
                   tool_results, execs, log, trips, apilog, sse, faults, errPhase>>

\* the connection fails, before the response or in the middle of the body
ClientTransportFail ==
    /\ pc \in {"client_idle", "client_stream"}
    /\ upstream' = [upstream EXCEPT !.error = ChatCompletionError(TransportFailure)]
    /\ pc' = "client_raised"
    /\ stream1' = "failed"
    /\ UNCHANGED <<conversations, reqs, user_limits, clock, messages, calls, stream2, seen1, seen2, full_content,
                   assistant_response_content, tool_calls_buffer, toolPos,
                   tool_results, execs, log, trips, apilog, sse, faults, errPhase>>

\* a loop that reads on after the [DONE] line
LineTarget_IgnoreDone(kind) ==
    IF kind = "other_json" THEN "client_raised" ELSE "client_stream"

\* where the loop over the lines goes after a line: `break` on [DONE], the
\* `except Exception` clause when StreamChatResponse(**chunk_data) raises,
\* the next line otherwise
LineTarget(kind) ==
    IF kind = "done" THEN "client_done"
    ELSE IF kind = "other_json" THEN "client_raised"
    ELSE "client_stream"

\* one line of response.aiter_lines(): a "data: " line whose payload is
\* [DONE] ends the loop, one whose payload is JSON yields
\* StreamChatResponse(**chunk_data), which raises for JSON of another shape;
\* every other line is skipped
ClientLine(l) ==
    /\ pc = "client_stream"
    /\ Len(upstream.lines) < MaxLines
    /\ LET kind == IF l.data THEN l.payload.kind ELSE "skipped" IN
        /\ upstream' = [upstream EXCEPT !.lines = Append(@, l),
                                        !.error = IF kind = "other_json"
                                                  THEN InternalError ELSE @]
        /\ seen1' = IF kind = "chunk" THEN Append(seen1, l.payload.chunk) ELSE seen1
        /\ pc' = LineTarget(kind)
        /\ stream1' = IF LineTarget(kind) = "client_done" THEN "drained"
                      ELSE IF LineTarget(kind) = "client_raised" THEN "failed"
                      ELSE stream1
    /\ UNCHANGED <<conversations, reqs, user_limits, clock, messages, calls, stream2, seen2, full_content,
                   assistant_response_content, tool_calls_buffer, toolPos,
                   tool_results, execs, log, trips, apilog, sse, faults, errPhase>>

\* the body ends without a [DONE] line
ClientEnd ==
    /\ pc = "client_stream"
    /\ pc' = "client_done"
    /\ stream1' = "drained"
    /\ UNCHANGED <<conversations, reqs, user_limits, clock, upstream, messages, calls, stream2, seen1, seen2, full_content,
                   assistant_response_content, tool_calls_buffer, toolPos,
                   tool_results, execs, log, trips, apilog, sse, faults, errPhase>>

ClientNext ==
    \/ \E resp \in ClientResponses : ClientRespond(resp)
    \/ ClientTransportFail
    \/ \E l \in ClientLines : ClientLine(l)
    \/ ClientEnd

ClientSpec == ClientInit /\ [][ClientNext]_vars

\* --------------------------------------------- entry of the stream handler
\* f"{user_id}:{endpoint}": both routers pass the one endpoint name
LimitKey(user_id) == user_id

\* a limiter that rejects only above the limit
CheckRateLimit_OffByOne(limits, key, now) ==
    LET known == IF key \in DOMAIN limits THEN limits[key]
                 ELSE [count |-> 0, window_start |-> now]
        info  == IF now - known.window_start > rate_limit_window
                 THEN [count |-> 0, window_start |-> now] ELSE known
        ok    == ~(info.count > rate_limit_requests)
        after == IF ok THEN [info EXCEPT !.count = @ + 1] ELSE info IN
    [ok |-> ok,
     limits |-> [k \in DOMAIN limits \cup {key} |-> IF k = key THEN after ELSE limits[k]]]

\* check_rate_limit: the entry of the key is created on first use, the window
\* restarts when it has expired, a request is refused when the count has
\* reached the limit and counted otherwise
CheckRateLimit(limits, key, now) ==
    LET known == IF key \in DOMAIN limits THEN limits[key]
                 ELSE [count |-> 0, window_start |-> now]
        info  == IF now - known.window_start > rate_limit_window
                 THEN [count |-> 0, window_start |-> now] ELSE known
        ok    == ~(info.count >= rate_limit_requests)
        after == IF ok THEN [info EXCEPT !.count = @ + 1] ELSE info IN
    [ok |-> ok,
     limits |-> [k \in DOMAIN limits \cup {key} |-> IF k = key THEN after ELSE limits[k]]]

Users == {1, 2}
LongContent == [k \in 1..(TitleLimit + 1) |-> "x"]
EntryContents == {<<"q">>, <<" ">>, LongContent}
ReplyContents == {Text(<<"a">>), Text(<<" ">>)}

NoConversation == 0

Request(user_id, content, pos, at) ==
    [user_id |-> user_id, content |-> content, pc |-> pos, conv |-> NoConversation,
     at |-> at, reply |-> [role |-> "none", content |-> Text(Empty)]]

EntryInit ==
    /\ pc = "entry"
    /\ messages = << >>
    /\ calls = << >>
    /\ stream1 = "idle"
    /\ stream2 = "idle"
    /\ seen1 = << >>
    /\ seen2 = << >>
    /\ full_content = Empty
    /\ assistant_response_content = Empty
    /\ tool_calls_buffer = << >>
    /\ toolPos = 1
    /\ tool_results = << >>
    /\ execs = << >>
    /\ log = << >>
    /\ trips = << >>
    /\ apilog = << >>
    /\ sse = << >>
    /\ faults = 0
    /\ errPhase = "none"
    /\ upstream = NoUpstream
    /\ conversations = << >>
    /\ reqs = << >>
    /\ user_limits = NoLimits
    /\ clock = 0

\* time passes
Tick ==
    /\ clock < MaxClock
    /\ clock' = clock + 1
    /\ UNCHANGED <<conversations, reqs, user_limits, upstream, pc, messages, calls,
                   stream1, stream2, seen1, seen2, full_content,
                   assistant_response_content, tool_calls_buffer, toolPos,
                   tool_results, execs, log, trips, apilog, sse, faults, errPhase>>

\* a request of an authenticated user reaches the handler: check_rate_limit
\* runs first and without an await; a refused request raises 429 there
Arrive(user_id, content) ==
    /\ Len(reqs) < MaxRequests
    /\ LET r == CheckRateLimit(user_limits, LimitKey(user_id), clock) IN
        /\ user_limits' = r.limits
        /\ reqs' = Append(reqs, Request(user_id, content,
                                        IF r.ok THEN "select" ELSE "http429", clock))
    /\ UNCHANGED <<conversations, clock, upstream, pc, messages, calls,
                   stream1, stream2, seen1, seen2, full_content,
                   assistant_response_content, tool_calls_buffer, toolPos,
                   tool_results, execs, log, trips, apilog, sse, faults, errPhase>>

\* the SELECT of get_or_create_conversation, in the request's own session
SelectConversation(i) ==
    /\ reqs[i].pc = "select"
    /\ LET found == ActiveConversations(conversations, reqs[i].user_id) IN
        IF found = {}
        THEN reqs' = [reqs EXCEPT ![i].pc = "create"]
        ELSE \E k \in found :
                reqs' = [reqs EXCEPT ![i].pc = "add", ![i].conv = conversations[k].id]
    /\ UNCHANGED <<conversations, user_limits, clock, upstream, pc, messages, calls,
                   stream1, stream2, seen1, seen2, full_content,
                   assistant_response_content, tool_calls_buffer, toolPos,
                   tool_results, execs, log, trips, apilog, sse, faults, errPhase>>

\* `if not conversation:` add, commit and refresh of the new conversation
CreateConversation(i) ==
    /\ reqs[i].pc = "create"
    /\ conversations' = Append(conversations,
                               Conversation(NewConversationId(conversations),
                                            reqs[i].user_id,
                                            Prefix(reqs[i].content, TitleLimit)))
    /\ reqs' = [reqs EXCEPT ![i].pc = "add",
                            ![i].conv = NewConversationId(conversations)]
    /\ UNCHANGED <<user_limits, clock, upstream, pc, messages, calls,
                   stream1, stream2, seen1, seen2, full_content,
                   assistant_response_content, tool_calls_buffer, toolPos,
                   tool_results, execs, log, trips, apilog, sse, faults, errPhase>>

\* add_message of the user message; an exception that escapes it reaches the
\* handler's `except Exception`, which writes the 500 log row
AddUserMessage(i, outcome) ==
    /\ reqs[i].pc = "add"
    /\ faults + AddFault(Text(reqs[i].content), outcome) <= MaxFaults
    /\ LET r == AddMessage(log, conversations, reqs[i].conv, "user",
                           Text(reqs[i].content), Null, clock, outcome) IN
        /\ log' = r.log
        /\ conversations' = r.convs
        /\ faults' = faults + AddFault(Text(reqs[i].content), outcome)
        /\ reqs' = [reqs EXCEPT ![i].pc = IF r.raised THEN "http500" ELSE "entered"]
        /\ apilog' = IF r.raised THEN Append(apilog, APILogRow(500)) ELSE apilog
    /\ UNCHANGED <<user_limits, clock, upstream, pc, messages, calls,
                   stream1, stream2, seen1, seen2, full_content,
                   assistant_response_content, tool_calls_buffer, toolPos,
                   tool_results, execs, trips, sse, errPhase>>

\* an add_message of generate(): the assistant message of the request
AddReply(i, role, content, outcome) ==
    /\ reqs[i].pc = "entered"
    /\ faults + AddFault(content, outcome) <= MaxFaults
    /\ LET r == AddMessage(log, conversations, reqs[i].conv, role, content,
                           <<"assistant">>, clock, outcome) IN
        /\ log' = r.log
        /\ conversations' = r.convs
        /\ faults' = faults + AddFault(content, outcome)
        /\ reqs' = [reqs EXCEPT ![i].pc = "replied",
                                ![i].reply = [role |-> role, content |-> content]]
    /\ UNCHANGED <<user_limits, clock, upstream, pc, messages, calls,
                   stream1, stream2, seen1, seen2, full_content,
                   assistant_response_content, tool_calls_buffer, toolPos,
                   tool_results, execs, trips, apilog, sse, errPhase>>

\* requests of both users in the handler together, their steps interleaved
\* at the awaits
EntryNext ==
    \/ \E u \in Users, c \in EntryContents : Len(reqs) < MaxConcurrent /\ Arrive(u, c)
    \/ \E i \in 1..Len(reqs) : SelectConversation(i)
    \/ \E i \in 1..Len(reqs) : CreateConversation(i)
    \/ \E i \in 1..Len(reqs), o \in StoreOutcomes : AddUserMessage(i, o)
    \/ \E i \in 1..Len(reqs), c \in ReplyContents : AddReply(i, "assistant", c, "ok")

EntrySpec == EntryInit /\ [][EntryNext]_vars

\* no request is between its rate-limit check and its user message
Quiet == \A i \in 1..Len(reqs) : reqs[i].pc \in {"http429", "http500", "entered", "replied"}

\* requests that arrive one after the other while time passes
LimitNext ==
    \/ Tick
    \/ \E u \in Users, c \in UserContents : Quiet /\ Arrive(u, c)
    \/ \E i \in 1..Len(reqs) : SelectConversation(i)
    \/ \E i \in 1..Len(reqs) : CreateConversation(i)
    \/ \E i \in 1..Len(reqs), o \in StoreOutcomes : AddUserMessage(i, o)

LimitSpec == EntryInit /\ [][LimitNext]_vars


\* ======================================================================
\* Properties
\* ======================================================================

RECURSIVE IsSubseq(_, _)
\* a is b with some elements left out
IsSubseq(a, b) ==
    IF a = << >> THEN TRUE
    ELSE IF b = << >> THEN FALSE
    ELSE IF Head(a) = Head(b) THEN IsSubseq(Tail(a), Tail(b))
    ELSE IsSubseq(a, Tail(b))

RECURSIVE Flatten(_)
Flatten(ss) == IF ss = << >> THEN << >> ELSE Head(ss) \o Flatten(Tail(ss))

SelectIdx(s, P(_)) == {k \in 1..Len(s) : P(s[k])}

\* the argument pieces of index i in a list of fragments, a missing, null or
\* empty piece contributing nothing
RECURSIVE FragmentPieces(_, _)
FragmentPieces(fs, i) ==
    IF fs = << >> THEN << >>
    ELSE (IF Head(fs).index = i /\ Truthy(Head(fs).args) THEN Head(fs).args ELSE << >>)
         \o FragmentPieces(Tail(fs), i)

\* all argument pieces of index i over a stream of chunks, in arrival order
RECURSIVE StreamPieces(_, _)
StreamPieces(chunks, i) ==
    IF chunks = << >> THEN << >>
    ELSE FragmentPieces(Head(chunks).tool_calls, i) \o StreamPieces(Tail(chunks), i)

\* ---------------------------------------------------------------------
\* C1: every call of execute_tool_call is made after the pass-1 upstream
\* stream has been fully consumed, and the arguments it is given for an
\* index are the concatenation of all argument fragments of that index over
\* the whole pass-1 stream.
C1_ToolsAfterPass1Drained ==
    \A k \in 1..Len(execs) :
        /\ execs[k].stream1 = "drained"
        /\ OrEmpty(execs[k].arguments) = StreamPieces(seen1, execs[k].index)

\* a tool ran on arguments that arrived in two fragments
C1_Witness ==
    \E k \in 1..Len(execs) :
        /\ execs[k].arguments = ValidArgs
        /\ Len(trips) = 1

\* ---------------------------------------------------------------------
\* what a stored row is: the user message, an assistant row holding a
\* serialized tool call, a tool row, or an assistant text row
RowKind(r) ==
    IF r.role = "user" THEN "user"
    ELSE IF r.role = "tool" THEN "tool"
    ELSE IF r.content.kind = "json" THEN "tool_calls"
    ELSE "final"

\* the name of the call an assistant tool_calls row holds
RowCallName(r) == r.content.value.tool_calls[1].name

UserRow == [conversation_id |-> ConversationId, role |-> "user", content |-> Text(<<"q">>), name |-> Null, tokens |-> 0]

CallRows(k) ==
    LET e == tool_calls_buffer[PosOf(tool_calls_buffer, execs[k].index)] IN
    <<[conversation_id |-> ConversationId, role |-> "assistant",
       content |-> JsonDumps([tool_calls |-> <<ToolCallDict(e)>>]),
       name |-> <<"assistant">>, tokens |-> 0],
      [conversation_id |-> ConversationId, role |-> "tool",
       content |-> JsonDumps(tool_results[k].result),
       name |-> execs[k].tool_name, tokens |-> 0]>>

FinalRow ==
    [conversation_id |-> ConversationId, role |-> "assistant",
     content |-> Text(Strip(IF tool_calls_buffer # << >>
                            THEN assistant_response_content ELSE full_content)),
     name |-> <<"assistant">>, tokens |-> 0]

AttemptedRows ==
    <<UserRow>> \o Flatten([k \in 1..Len(execs) |-> CallRows(k)]) \o <<FinalRow>>

ToolContents(ms) ==
    LET idx == SelectIdx(ms, LAMBDA m : m.role = "tool")
        RECURSIVE pick(_)
        pick(k) == IF k > Len(ms) THEN << >>
                   ELSE (IF k \in idx THEN <<ms[k].content>> ELSE << >>) \o pick(k + 1)
    IN pick(1)

RowToolCallId(r) == IF "tool_call_id" \in DOMAIN r THEN r.tool_call_id ELSE Absent

\* the ids of the tool calls an upstream message carries
CallIdsOf(m) ==
    IF m.tool_calls.kind = "list"
    THEN {m.tool_calls.items[j].id : j \in 1..Len(m.tool_calls.items)}
    ELSE {}

\* one message list sent upstream: every tool message has a tool_call_id that
\* is the id of a call of an earlier assistant message, and every call of an
\* assistant message is answered by exactly one tool message
C4_UpstreamList(ms) ==
    /\ \A k \in 1..Len(ms) :
          ms[k].role = "tool" =>
              /\ ms[k].tool_call_id # Absent
              /\ \E j \in 1..(k - 1) : ms[k].tool_call_id \in CallIdsOf(ms[j])
    /\ \A j \in 1..Len(ms) :
          \A id \in CallIdsOf(ms[j]) :
              Cardinality({k \in 1..Len(ms) :
                              ms[k].role = "tool" /\ ms[k].tool_call_id = id}) = 1

\* the stored rows: every tool row carries a tool_call_id, which is the id of
\* the call of an earlier assistant tool_calls row
C4_StoredRows ==
    \A k \in 1..Len(log) :
        log[k].role = "tool" =>
            /\ RowToolCallId(log[k]) # Absent
            /\ \E j \in 1..(k - 1) :
                  /\ RowKind(log[j]) = "tool_calls"
                  /\ log[j].content.value.tool_calls[1].id = RowToolCallId(log[k])

\* C4 as stated: in every message list sent upstream and in the stored log,
\* each tool message carries a tool_call_id equal to the id of an entry of a
\* preceding assistant tool_calls message, and every entry of a tool_calls
\* array is answered by exactly one tool message.
C4_ToolCallIds ==
    /\ \A c \in 1..Len(calls) : C4_UpstreamList(calls[c])
    /\ C4_StoredRows

\* the same for the upstream lists alone
C4_UpstreamOnly == \A c \in 1..Len(calls) : C4_UpstreamList(calls[c])

\* ---------------------------------------------------------------------
\* how often execute_tool_call was invoked for the buffer entry at position k
ExecCount(k) ==
    Cardinality({j \in 1..Len(execs) : execs[j].index = tool_calls_buffer[k].index})

\* the tool loop has gone past position k
LoopPassed(k) == stream1 = "drained" /\ toolPos > k

\* C5 as stated: every entry of the buffer at the end of pass 1 is executed
\* exactly once, whatever its id, name or arguments, once the request has
\* gone past it.
C5_EveryEntryOnce ==
    \A k \in 1..Len(tool_calls_buffer) : LoopPassed(k) => ExecCount(k) = 1

\* what the loop does instead: an entry whose function name is non-empty is
\* executed exactly once when the loop has gone past it and never twice; an
\* entry whose name is empty, null or missing is never executed.
C5_NamedEntryOnce ==
    \A k \in 1..Len(tool_calls_buffer) :
        /\ ExecCount(k) <= 1
        /\ Truthy(tool_calls_buffer[k].name) /\ LoopPassed(k) => ExecCount(k) = 1
        /\ ~Truthy(tool_calls_buffer[k].name) => ExecCount(k) = 0
        /\ stream1 # "drained" => ExecCount(k) = 0

\* the loop went over a buffer holding a named and a nameless entry
C5_Witness ==
    /\ pc = "pass2"
    /\ \E k \in 1..Len(tool_calls_buffer) : ~Truthy(tool_calls_buffer[k].name)
    /\ \E k \in 1..Len(tool_calls_buffer) :
          Truthy(tool_calls_buffer[k].name) /\ ExecCount(k) = 1

\* ---------------------------------------------------------------------
\* the pass-1 stream carried content deltas only
OnlyContentPass1 ==
    /\ seen1 # << >>
    /\ \A k \in 1..Len(seen1) :
          seen1[k].choices /\ Truthy(seen1[k].content) /\ seen1[k].tool_calls = << >>

\* the concatenation of the pass-1 content deltas, in order
Pass1Text == Flatten([k \in 1..Len(seen1) |-> seen1[k].content])

AssistantRows == SelectIdx(log, LAMBDA r : r.role = "assistant")

C7_AtMostTwoUpstreamCalls ==
    /\ Len(calls) <= 2
    /\ Len(calls) = 2 => stream1 = "drained"
    /\ stream2 # "idle" => Len(calls) = 2
    /\ \A k \in 1..Len(execs) : execs[k].stream2 = "idle"
    /\ Len(execs) <= Len(tool_calls_buffer)
    /\ \A k \in 1..Len(tool_calls_buffer) :
          tool_calls_buffer[k].args \in
              {StreamPieces(seen1, tool_calls_buffer[k].index), Null}

\* a request finished after a pass-2 stream that asked for another tool
C7_Witness ==
    /\ pc = "done"
    /\ Len(calls) = 2
    /\ \E k \in 1..Len(seen2) : seen2[k].tool_calls # << >>
    /\ Len(execs) = 1

\* ---------------------------------------------------------------------
IsTerminal(e) == e.type \in {"done", "error"}

\* generate() has returned or raised: the stream has been read to its end
StreamEnded == pc \in {"done", "failed", "crashed"}

\* C8 as stated: every stream that is read to its end contains exactly one
\* terminal event, [DONE] or an error frame, and it is the last event; no
\* event follows a terminal event and the two never occur together.
C8_OneTerminalEventLast ==
    /\ \A k \in 1..Len(sse) : IsTerminal(sse[k]) => k = Len(sse)
    /\ StreamEnded => sse # << >> /\ IsTerminal(sse[Len(sse)])

\* what holds of every stream: at most one terminal event, and nothing after it
C8_NothingAfterTerminal ==
    \A k \in 1..Len(sse) : IsTerminal(sse[k]) => k = Len(sse)

\* ---------------------------------------------------------------------
\* C9 as stated: with finite upstream streams and store, tool and log calls
\* that return or raise, a request that has started streaming ends in DONE
\* ([DONE] emitted) or FAILED (error frame emitted), unless the client went
\* away: whenever the request can take no further step, it is in one of those
\* states.
C9_EndsDoneOrFailed ==
    (ENABLED Next) \/ pc \in {"done", "failed", "cancelled", "http500"}

\* ---------------------------------------------------------------------
TextRows == SelectIdx(log, LAMBDA r : r.role = "assistant" /\ r.content.kind = "text")

\* C10: after an exception raised in pass 1, in the tool phase or in pass 2,
\* the text accumulated for the pass in flight is never stored: the log holds
\* no assistant text message, also once the error frame has been sent.
C10_PartialTextNotStored ==
    errPhase \in {"pass1", "tools", "persist_call", "persist_result", "pass2"} =>
        TextRows = {}

\* the error frame was sent after pass 2 failed with text already forwarded
C10_Witness ==
    /\ pc = "failed"
    /\ errPhase = "pass2"
    /\ assistant_response_content # Empty
    /\ \E k \in 1..Len(sse) : sse[k].type = "content"

\* ---------------------------------------------------------------------
LogCount(status) ==
    Cardinality({k \in 1..Len(apilog) : apilog[k].status_code = status})

EndsWith(type) == sse # << >> /\ sse[Len(sse)].type = type

\* C11 as stated: a request whose stream has ended has recorded exactly one
\* APILog row; a status-200 row exists exactly when the stream ends with
\* [DONE], a status-500 row exactly when it ends with an error frame, and
\* never both.
C11_OneLogEntry ==
    StreamEnded =>
        /\ Len(apilog) = 1
        /\ LogCount(200) >= 1 <=> EndsWith("done")
        /\ LogCount(500) >= 1 <=> EndsWith("error")
        /\ ~(LogCount(200) >= 1 /\ LogCount(500) >= 1)

\* the part of C11 that the log write of status 200 breaks on its own: a
\* request never holds both a 200 and a 500 row
C11_NeverBoth == ~(LogCount(200) >= 1 /\ LogCount(500) >= 1)

\* ---------------------------------------------------------------------
ErrorFrames == Cardinality({k \in 1..Len(sse) : sse[k].type = "error"})

\* C12 as stated: once the response has started no failure leaves generate()
\* as an exception; whenever a failure was raised inside it (also a failure
\* of the log write made while an earlier failure is handled) the generator
\* ends normally with exactly one error frame.
C12_NoFailureEscapes ==
    /\ pc # "crashed"
    /\ (errPhase \notin {"none", "init"} /\ StreamEnded) =>
           pc = "failed" /\ ErrorFrames = 1

\* ---------------------------------------------------------------------
\* the text generate() hands to the final add_message
FinalText == FinalContent(tool_calls_buffer, full_content, assistant_response_content)

\* the final add_message was made with text that is not blank, returned
\* without raising, and its row is not in the store
FinalAppendLost ==
    /\ pc \in {"log200", "done"}
    /\ ~IsBlank(Text(FinalText))
    /\ \A k \in 1..Len(log) : log[k] # FinalRow

\* C13 as stated: a request whose final assistant append failed in the store
\* does not end with [DONE] (it takes the failure path), and a failed append
\* of an assistant tool_calls or tool message never takes the request to the
\* failure path.
C13_FinalAppendFailureFails ==
    /\ pc = "done" => ~FinalAppendLost
    /\ errPhase \notin {"persist_call", "persist_result"}

\* ---------------------------------------------------------------------
\* the fragments of index i over a stream of chunks, in arrival order
RECURSIVE FragsOf(_, _)
FragsOf(chunks, i) ==
    IF chunks = << >> THEN << >>
    ELSE SelectSeq(Head(chunks).tool_calls, LAMBDA f : f.index = i)
         \o FragsOf(Tail(chunks), i)

RECURSIVE LastNonEmpty(_, _)
LastNonEmpty(vs, first) ==
    IF vs = << >> THEN first
    ELSE IF Truthy(vs[Len(vs)]) THEN vs[Len(vs)]
    ELSE LastNonEmpty(SubSeq(vs, 1, Len(vs) - 1), first)

\* C15: for every sequence of fragments of one index, the assembled id is the
\* last non-empty id received (what the first fragment gave when no fragment
\* carries one) and the assembled function name the last non-empty name
\* received; a later fragment with a missing, null or empty id or name never
\* changes what is stored.
C15_LastNonEmptyWins ==
    \A k \in 1..Len(tool_calls_buffer) :
        LET fs == FragsOf(seen1, tool_calls_buffer[k].index) IN
        /\ tool_calls_buffer[k].id =
             LastNonEmpty([j \in 1..Len(fs) |-> fs[j].id], GetDefault(fs[1].id))
        /\ tool_calls_buffer[k].name =
             LastNonEmpty([j \in 1..Len(fs) |-> fs[j].name], GetDefault(fs[1].name))

\* the id came with the first fragment only and the name with the first and
\* the third, with different values
C15_Witness ==
    /\ Len(seen1) >= 3
    /\ LET fs == FragsOf(seen1, 0) IN
        /\ Len(fs) >= 3
        /\ fs[1].id = CallId(0) /\ ~Truthy(fs[2].id) /\ ~Truthy(fs[3].id)
        /\ fs[1].name = CreateTrip /\ ~Truthy(fs[2].name) /\ fs[3].name = <<"other_tool">>
        /\ Len(fs) = 3
    /\ tool_calls_buffer[PosOf(tool_calls_buffer, 0)].id = CallId(0)
    /\ tool_calls_buffer[PosOf(tool_calls_buffer, 0)].name = <<"other_tool">>

\* ---------------------------------------------------------------------
\* C16 as stated: whatever order the indexes first arrive in, the tool calls
\* are executed (and so persisted) in ascending order of index, and the
\* tool_calls array of pass 2, list(tool_calls_buffer.values()), lists them in
\* ascending order of index.
C16_AscendingIndexOrder ==
    /\ \A j, k \in 1..Len(execs) : j < k => execs[j].index < execs[k].index
    /\ stream1 = "drained" =>
          \A j, k \in 1..Len(tool_calls_buffer) :
              j < k => tool_calls_buffer[j].index < tool_calls_buffer[k].index

\* ---------------------------------------------------------------------
\* a call that cannot have succeeded: unknown tool, arguments that do not
\* give a trip whose start is not after its end, or a store that failed
CallFailed(e) == ~(ReachesStore(e.tool_name, e.arguments) /\ e.outcome = "ok")

\* C17: execute_tool_call never raises: for every tool name, every arguments
\* string and every outcome of the store each call returns a ToolCallResult,
\* and the result of a call in which anything failed has success = false.
C17_NeverRaises ==
    /\ pc # "exec_raised"
    /\ Len(tool_results) = Len(execs)
    /\ \A k \in 1..Len(execs) :
          /\ tool_results[k].result.tool_name = execs[k].tool_name
          /\ CallFailed(execs[k]) => ~tool_results[k].result.success

\* a call whose commit and rollback both failed, and one whose arguments
\* were not JSON, returned failure results
C17_Witness ==
    /\ \E k \in 1..Len(execs) :
          /\ execs[k].outcome = "rollback_fail"
          /\ tool_results[k].result.error = <<"tool_failed">>
    /\ \E k \in 1..Len(execs) :
          /\ execs[k].arguments = <<"x">> /\ execs[k].tool_name = CreateTrip
          /\ tool_results[k].result.error = <<"parse_failed">>

\* ---------------------------------------------------------------------
\* C18 as stated: a call of the tool service adds a trip exactly when the
\* result it returns has success = true: then exactly one trip is new, owned
\* by the caller, with actual_expense = 0 and a start date not after its end
\* date; when the result has success = false the trip store is what it was
\* before the call.
C18_TripIffSuccess ==
    [][Len(tool_results') = Len(tool_results) + 1 =>
         LET r == tool_results'[Len(tool_results')].result IN
         /\ r.success <=> trips' # trips
         /\ r.success =>
               /\ Len(trips') = Len(trips) + 1
               /\ SubSeq(trips', 1, Len(trips)) = trips
               /\ trips'[Len(trips')].user_id = UserId
               /\ trips'[Len(trips')].actual_expense = 0
               /\ trips'[Len(trips')].start_date <= trips'[Len(trips')].end_date
         /\ ~r.success => trips' = trips]_vars

\* what holds of the trip store: a call adds at most one trip, owned by the
\* caller, with actual_expense = 0 and start not after end, and it adds none
\* unless the arguments were valid and the commit went through
C18_TripsWellFormed ==
    /\ \A k \in 1..Len(trips) :
          /\ trips[k].user_id = UserId
          /\ trips[k].actual_expense = 0
          /\ trips[k].start_date <= trips[k].end_date
    /\ Len(trips) <= Cardinality({k \in 1..Len(execs) :
                                    ReachesStore(execs[k].tool_name, execs[k].arguments)})

\* ---------------------------------------------------------------------
\* C19: every ToolCallResult the tool service returns has exactly one of data
\* and error populated: with success = true the data is set and the error is
\* absent, with success = false the error is set and the data is absent.
C19_DataXorError ==
    \A k \in 1..Len(tool_results) :
        LET r == tool_results[k].result IN
        /\ r.success => r.data # NoData /\ r.error = Null
        /\ ~r.success => r.data = NoData /\ Truthy(r.error)

\* results were returned for an unknown tool and for a create_trip whose
\* commit failed, each with an error and no data
C19_Witness ==
    /\ \E k \in 1..Len(tool_results) :
          /\ tool_results[k].result.error = <<"unknown_tool">>
          /\ tool_results[k].result.data = NoData
    /\ \E k \in 1..Len(tool_results) :
          /\ execs[k].outcome = "commit_fail"
          /\ tool_results[k].result.error = <<"create_failed">>
          /\ tool_results[k].result.data = NoData

\* ---------------------------------------------------------------------
\* the response in hand has a status outside 2xx
BadStatus == upstream.response # TransportFailure /\ RaisesForStatus(upstream.response.status)

\* C20: for a response whose status is not 2xx chat_completion_stream yields
\* no chunk and raises an error typed by the status alone - 401 the auth
\* error, 429 the rate-limit error, 500 and above the 503 error, any other
\* status a generic error with that status - carrying the message taken from
\* the error body; a transport failure raises the internal 500 error; and no
\* error is ever an element of the chunk sequence.
C20_TypedErrorByStatus ==
    LET st == upstream.response.status
        e  == upstream.error IN
    /\ BadStatus =>
          /\ pc = "client_raised"
          /\ seen1 = << >>
          /\ upstream.lines = << >>
          /\ st = 401 => e.status_code = 401 /\ e.kind = "auth"
          /\ st = 429 => e.status_code = 429 /\ e.kind = "rate_limit"
          /\ st >= 500 => e.status_code = 503 /\ e.kind = "unavailable"
          /\ st \notin {401, 429} /\ st < 500 => e.status_code = st /\ e.kind = "generic"
          /\ e.message = IF upstream.response.body.kind = "json_message"
                         THEN upstream.response.body.message
                         ELSE upstream.response.body.raw
    /\ (pc = "client_raised" /\ ~BadStatus) => e.status_code = 500 /\ e.kind = "internal"
    /\ pc # "client_raised" => e = NoError
    /\ \A k \in 1..Len(seen1) : seen1[k] \in {l.payload.chunk : l \in {x \in ClientLines : x.payload.kind = "chunk"}}

\* a status-500 response was answered with the 503 error carrying the message of
\* the JSON error body
C20_Witness ==
    /\ pc = "client_raised"
    /\ upstream.response = Response(500, JsonBody(<<"m">>))
    /\ upstream.error = HTTPException(503, "unavailable", <<"m">>)
    /\ seen1 = << >>

\* ---------------------------------------------------------------------
IsDoneLine(l) == l.data /\ l.payload.kind = "done"
IsJsonLine(l) == l.data /\ l.payload.kind \in {"chunk", "other_json"}
IsChunkLine(l) == l.data /\ l.payload.kind = "chunk"

\* the lines that precede the first `data: [DONE]` line
RECURSIVE BeforeDone(_)
BeforeDone(ls) ==
    IF ls = << >> \/ IsDoneLine(Head(ls)) THEN << >>
    ELSE <<Head(ls)>> \o BeforeDone(Tail(ls))

\* the lines up to and including the first whose JSON is not a chunk
RECURSIVE UpToOtherJson(_)
UpToOtherJson(ls) ==
    IF ls = << >> THEN << >>
    ELSE IF Head(ls).data /\ Head(ls).payload.kind = "other_json" THEN <<Head(ls)>>
    ELSE <<Head(ls)>> \o UpToOtherJson(Tail(ls))

\* C21 as stated: the chunks yielded for a 200 response are exactly the
\* decoded payloads of the `data: ` lines with a JSON payload that precede
\* the first [DONE] line, in line order, whatever the lines are.
C21_AllJsonLinesYielded ==
    LET js == SelectSeq(BeforeDone(upstream.lines), IsJsonLine) IN
    /\ Len(seen1) = Len(js)
    /\ \A k \in 1..Len(js) : IsChunkLine(js[k]) /\ seen1[k] = js[k].payload.chunk

\* C21 (amended): the chunks yielded are, in line order, the decoded payloads
\* of the `data: ` lines that precede the first [DONE] line and carry a chunk,
\* up to the first `data: ` line whose JSON is not a chunk: that line ends the
\* sequence with the internal error.  Lines without the prefix, blank
\* payloads and payloads that are not JSON are skipped without error, and no
\* line after [DONE] yields a chunk.
C21_ChunksBeforeDone ==
    /\ [](LET ls == UpToOtherJson(BeforeDone(upstream.lines))
              cs == SelectSeq(ls, IsChunkLine) IN
          /\ seen1 = [k \in 1..Len(cs) |-> cs[k].payload.chunk]
          /\ (\E k \in 1..Len(ls) : ls[k].data /\ ls[k].payload.kind = "other_json")
                => pc = "client_raised" /\ upstream.error = InternalError
          /\ (\E k \in 1..Len(upstream.lines) : IsDoneLine(upstream.lines[k]))
                => pc = "client_done")
    /\ [][Len(upstream'.lines) = Len(upstream.lines) + 1 =>
            LET l == upstream'.lines[Len(upstream'.lines)] IN
            (~l.data \/ l.payload.kind \in {"blank", "not_json"}) =>
                /\ pc' = "client_stream"
                /\ seen1' = seen1
                /\ upstream'.error = NoError]_vars

\* a stream of a skipped line, a chunk and [DONE] yielded the one chunk
C21_Witness ==
    /\ pc = "client_done"
    /\ Len(upstream.lines) = 3
    /\ upstream.lines[1].data /\ upstream.lines[1].payload.kind = "not_json"
    /\ IsChunkLine(upstream.lines[2])
    /\ IsDoneLine(upstream.lines[3])
    /\ seen1 = <<upstream.lines[2].payload.chunk>>

\* ---------------------------------------------------------------------
IsChunkEvent(e) == e.type \in {"content", "keepalive"}

\* C22: in both passes the events emitted are the order-preserving image of
\* the chunks read: for each chunk, in arrival order, one content event iff
\* its delta.content is non-empty, then exactly one keep-alive event.
C22_EventsFollowChunks ==
    LET chunks == seen1 \o seen2 IN
    SelectSeq(sse, IsChunkEvent)
        = Flatten([k \in 1..Len(chunks) |-> ChunkEvents(chunks[k], FALSE)])

\* ---------------------------------------------------------------------
\* C23: when the client disconnects during pass 1 or pass 2 (generate() is
\* closed at a yield), the upstream connection of the in-flight pass is
\* closed and from then on no message is appended, no tool is executed, no
\* API-log row is written and no upstream call is made, while the messages
\* and trips committed before stay.
C23_DisconnectStopsWork ==
    /\ [](pc = "cancelled" =>
            /\ stream1 # "open" /\ stream2 # "open"
            /\ stream1 = "closed" \/ stream2 = "closed"
            /\ ~ENABLED Next)
    /\ [][pc = "cancelled" =>
            UNCHANGED <<log, execs, trips, apilog, calls, sse, messages>>]_vars

\* a disconnect in pass 2, after a tool ran and its messages were committed
C23_Witness ==
    /\ pc = "cancelled"
    /\ stream2 = "closed"
    /\ Len(execs) = 1
    /\ Len(trips) = 1
    /\ Len(log) >= 3
    /\ apilog = << >>

\* ---------------------------------------------------------------------
Accepted(i) == reqs[i].pc # "http429"

\* the requests of a key accepted since the start of its current window
AcceptedInWindow(key) ==
    {i \in 1..Len(reqs) :
        /\ LimitKey(reqs[i].user_id) = key
        /\ Accepted(i)
        /\ reqs[i].at >= user_limits[key].window_start}

CountOf(limits, key) == IF key \in DOMAIN limits THEN limits[key].count ELSE 0

\* C24: a request refused by the limiter (the count of its key has reached
\* rate_limit_requests within the current window) is answered with 429 before
\* anything else: no conversation, no message, no upstream call, no API-log
\* row, no increase of the count, and the request goes no further; and within
\* one window no more than rate_limit_requests requests of a key are accepted.
C24_RateLimitShortCircuits ==
    /\ [](\A key \in DOMAIN user_limits :
            Cardinality(AcceptedInWindow(key)) <= rate_limit_requests)
    /\ [][Len(reqs') = Len(reqs) + 1 /\ reqs'[Len(reqs')].pc = "http429" =>
            LET key == LimitKey(reqs'[Len(reqs')].user_id) IN
            /\ CountOf(user_limits, key) >= rate_limit_requests
            /\ clock - user_limits[key].window_start <= rate_limit_window
            /\ CountOf(user_limits', key) = CountOf(user_limits, key)
            /\ UNCHANGED <<conversations, log, calls, apilog, trips, messages, sse>>]_vars
    /\ [][\A i \in 1..Len(reqs) : reqs[i].pc = "http429" => reqs'[i] = reqs[i]]_vars

\* one request more than the limit came from a user in one window: it was
\* refused after the others had created the conversation and stored their
\* messages
C24_Witness ==
    /\ Len(reqs) = rate_limit_requests + 1
    /\ \A i \in 1..Len(reqs) :
          /\ reqs[i].user_id = 1
          /\ reqs[i].pc = IF i = Len(reqs) THEN "http429" ELSE "entered"
    /\ Len(conversations) = 1
    /\ Len(log) = rate_limit_requests
    /\ apilog = << >>
    /\ user_limits[LimitKey(1)].count = rate_limit_requests

\* ---------------------------------------------------------------------
\* C25: ingesting a fragment never aborts pass 1: a fragment without index
\* leaves the buffer unchanged, and the first fragment of an index creates an
\* entry whose id, name and arguments are the given values, the empty string
\* standing for each one that is missing, so that a later fragment applies.
C25_IngestNeverAborts ==
    /\ pc # "asm_raised"
    /\ \A k \in 1..Len(tool_calls_buffer) :
          /\ tool_calls_buffer[k].id # Absent
          /\ tool_calls_buffer[k].name # Absent
          /\ tool_calls_buffer[k].args # Absent

\* ---------------------------------------------------------------------
\* C26: add_message with empty or whitespace-only content appends nothing and
\* leaves the conversations as they are (updated_at and title included); no
\* stored message has empty or whitespace-only content.
C26_BlankContentNotStored ==
    /\ [](\A k \in 1..Len(log) :
            /\ ~IsBlank(log[k].content)
            /\ log[k].content.kind = "text" => log[k].content.text # Empty)
    /\ [][\A i \in 1..Len(reqs) :
            /\ (reqs[i].pc = "add" /\ reqs'[i].pc # "add"
                    /\ IsBlank(Text(reqs[i].content)))
                 => UNCHANGED <<log, conversations>>
            /\ (reqs[i].pc = "entered" /\ reqs'[i].pc = "replied"
                    /\ IsBlank(reqs'[i].reply.content))
                 => UNCHANGED <<log, conversations>>]_vars

\* a request with whitespace-only text passed add_message and a blank reply
\* after it: nothing is stored and the conversation was never updated
C26_Witness ==
    /\ Len(reqs) = 1
    /\ reqs[1].content = <<" ">>
    /\ reqs[1].pc = "replied"
    /\ IsBlank(reqs[1].reply.content)
    /\ log = << >>
    /\ Len(conversations) = 1
    /\ conversations[1].updated_at = NoTime

\* ---------------------------------------------------------------------
\* the stored messages of a conversation, in the order of their commits
RowsOf(cid) == SelectSeq(log, LAMBDA r : r.conversation_id = cid)

\* C27: when the first message appended to a conversation has role user, the
\* title is a prefix of that content of at most TitleLimit characters, the
\* ellipsis included.
C27_TitleWithinLimit ==
    \A k \in 1..Len(conversations) :
        (RowsOf(conversations[k].id) # << >>
            /\ RowsOf(conversations[k].id)[1].role = "user")
          => Len(conversations[k].title) <= TitleLimit

\* ---------------------------------------------------------------------
\* C28: in a request that ends with [DONE] and in which no store call failed,
\* the text forwarded to the client in the content events of both passes is
\* the assistant text stored by the request (compared without the leading and
\* trailing whitespace that add_message removes).
ForwardedText ==
    Flatten([k \in 1..Len(SelectSeq(sse, LAMBDA e : e.type = "content")) |->
                SelectSeq(sse, LAMBDA e : e.type = "content")[k].delta])

StoredAssistantText ==
    LET rows == SelectSeq(log, LAMBDA r : r.role = "assistant" /\ r.content.kind = "text") IN
    Flatten([k \in 1..Len(rows) |-> rows[k].content.text])

C28_ForwardedTextStored ==
    (pc = "done" /\ faults = 0) => Strip(ForwardedText) = StoredAssistantText

\* ---------------------------------------------------------------------
\* C29: under any interleaving of the requests of a user, the user never has
\* two active conversations created by get_or_create_conversation, and the
\* requests that are past it hold the same conversation.
C29_OneActiveConversation ==
    \A u \in Users :
        /\ Cardinality({k \in 1..Len(conversations) :
                          conversations[k].user_id = u /\ conversations[k].is_active}) <= 1
        /\ \A i, j \in 1..Len(reqs) :
              (reqs[i].user_id = u /\ reqs[j].user_id = u
                  /\ reqs[i].conv # NoConversation /\ reqs[j].conv # NoConversation)
                => reqs[i].conv = reqs[j].conv

\* ---------------------------------------------------------------------
\* C30: a request that ended with the error frame leaves no trip it created
\* in the trip store.
C30_NoTripAfterErrorFrame ==
    (sse # << >> /\ sse[Len(sse)].type = "error") => trips = << >>

====
